---- MODULE Spec2Model ----
(***************************************************************************)
(* A model of the Code-Doc-Assistant repository: the FAISS-backed          *)
(* CodeVectorStore (core/vector_store.py), the RAGPipeline built on it     *)
(* (core/rag_pipeline.py), the file-based documentation generators and    *)
(* their command lines (minimal_doc_assistant.py, clean_doc_assistant.py), *)
(* ParserAgent (agents/parser_agent.py) and CodeParser                     *)
(* (core/code_parser.py).                                                  *)
(***************************************************************************)
EXTENDS Integers, Sequences, FiniteSets, TLC

VARIABLES
    store,      \* the CodeVectorStore object: model, index, metadata, dimension
    disk,       \* the persisted files index.faiss and metadata.pkl of the one path
    saved,      \* history: the store as it was at the last completed save
    last,       \* the most recent call: operation, arguments and outcome
    filesystem, \* the source files and their backups: name -> text
    clock,      \* the wall clock, in seconds
    use_gemini, \* FixedDocGenerator.use_gemini
    gemini_available,   \* DocGenerator.gemini_available
    run,        \* the most recent run of a generator on a file and its outcome
    runs,       \* the number of runs made
    code_index, \* the file code_index.pkl that ParserAgent.index_codebase writes
    build,      \* the most recent build of ParserAgent and its outcome
    batch,      \* the command-line run in progress or last made, file by file
    adding,     \* the index_codebase call a second thread is in the middle of
    parse       \* the most recent CodeParser.parse_codebase call and its result

storevars == <<store, disk, saved, last>>
genvars == <<filesystem, clock, use_gemini, gemini_available, run, runs>>
agentvars == <<code_index, build>>
toolvars == <<batch, adding, parse>>
vars == <<storevars, genvars, agentvars, toolvars>>

(***************************************************************************)
(* Values                                                                  *)
(***************************************************************************)

\* The one element of a singleton set.  Only({F(x) : x \in {e}}) is F(e) with
\* e computed once.
Only(S) == CHOOSE x \in S : TRUE

\* Python's None where a string is expected (a missing docstring).
None == "<None>"

\* The number of components of an all-MiniLM-L6-v2 embedding (384 in the
\* program, scaled down here).
MiniLMDim == 2

ModelNames == {"all-MiniLM-L6-v2", "other-model"}

\* embeddings.shape[1] for each SentenceTransformer model.
ModelDim(model_name) ==
    IF model_name = "all-MiniLM-L6-v2" THEN MiniLMDim ELSE MiniLMDim + 1

\* A function or class record as the parser hands it over.  For a class,
\* args holds its method names.
Elem(n, f, t, d, a) ==
    [name |-> n, file_path |-> f, type |-> t, docstring |-> d, args |-> a]

fA == Elem("f", "a.py", "function", "Adds.", <<"x", "y">>)
gA == Elem("g", "a.py", "function", None, <<>>)
fB == Elem("f", "b.py", "function", "Adds b.", <<"x">>)
hB == Elem("h", "b.py", "function", "", <<"x">>)
gC == Elem("g", "c.py", "function", "Gets.", <<>>)
CA == Elem("C", "a.py", "class", "A class.", <<"f">>)
CB == Elem("C", "b.py", "class", None, <<>>)

Elems == {fA, gA, fB, hB, gC, CA, CB}

\* parsed_data: the 'functions' and 'classes' lists index_codebase reads.
Parsed(fs, cs) == [functions |-> fs, classes |-> cs]

ParsedInputs ==
    { Parsed(<<>>, <<>>),
      Parsed(<<gA, fB>>, <<CB>>),
      Parsed(<<fA, fB, gA, hB, gC>>, <<CA, CB>>) }

NameCode(n) ==
    CASE n = "f" -> 0 [] n = "g" -> 1 [] n = "h" -> 2 [] OTHER -> 3

TypeCode(t) == IF t = "function" THEN 0 ELSE 2

FileCode(f) ==
    CASE f = "a.py" -> 0 [] f = "b.py" -> 1 [] OTHER -> 2

\* One component of the embedding of a text.  The embedder is an opaque
\* deterministic map from texts to vectors; this is one such map.
Coord(model_name, text, i) ==
    LET shift == IF model_name = "all-MiniLM-L6-v2" THEN 0 ELSE 1
    IN  IF text.kind = "doc"
        THEN CASE i = 1 -> NameCode(text.name) + shift
               [] i = 2 -> TypeCode(text.type) + FileCode(text.file)
               [] OTHER -> (Len(text.list) + i) % 2
        ELSE CASE i = 1 -> NameCode(text.name) + shift
               [] i = 2 -> TypeCode(text.type)
               [] OTHER -> 0

\* self.model.encode([text])[0]
encode(model_name, text) ==
    [i \in 1..ModelDim(model_name) |-> Coord(model_name, text, i)]

(***************************************************************************)
(* CodeVectorStore                                                         *)
(***************************************************************************)

\* self.index = None
NoIndex == [none |-> TRUE, d |-> 0, ntotal |-> 0, xb |-> <<>>]

\* faiss.IndexFlatL2(d): an empty flat index of dimension d.
IndexFlatL2(d) == [none |-> FALSE, d |-> d, ntotal |-> 0, xb |-> <<>>]

RECURSIVE Flatten(_)
\* The rows of a matrix one after the other, as FAISS keeps its vectors.
Flatten(rows) ==
    IF rows = <<>> THEN <<>> ELSE Head(rows) \o Flatten(Tail(rows))

\* index.add(embeddings): the vectors are appended to the flat array.
IndexAdd(index, embeddings) ==
    [index EXCEPT !.ntotal = @ + Len(embeddings), !.xb = @ \o Flatten(embeddings)]

\* The i-th stored vector (i from 0, as FAISS numbers them).
Reconstruct(index, i) == SubSeq(index.xb, i * index.d + 1, i * index.d + index.d)

\* CodeVectorStore.__init__
NewStore(model_name) ==
    [model |-> model_name, index |-> NoIndex, metadata |-> <<>>,
     dimension |-> MiniLMDim]

\* The text _prepare_documents builds for a function or a class.
DocText(label, e) ==
    [kind |-> "doc", label |-> label, name |-> e.name, file |-> e.file_path,
     list |-> e.args, docstring |-> e.docstring, type |-> e.type]

\* CodeVectorStore._prepare_documents: the functions, then the classes.
prepare_documents(parsed_data) ==
    [i \in 1..Len(parsed_data.functions) |->
        [text |-> DocText("Function", parsed_data.functions[i]),
         type |-> "function", metadata |-> parsed_data.functions[i]]]
    \o
    [i \in 1..Len(parsed_data.classes) |->
        [text |-> DocText("Class", parsed_data.classes[i]),
         type |-> "class", metadata |-> parsed_data.classes[i]]]

\* index_codebase adding to the index and the metadata it already has.
IndexDocuments_appending(s, documents) ==
    LET embeddings == [i \in 1..Len(documents) |-> encode(s.model, documents[i].text)]
        dim == ModelDim(s.model)
    IN  [s EXCEPT !.dimension = dim,
                  !.index = IndexAdd(IF s.index.none THEN IndexFlatL2(dim) ELSE s.index,
                                     embeddings),
                  !.metadata = s.metadata \o documents]

\* The body of index_codebase once the documents are known to be non-empty:
\* embed, build a new index, replace the metadata.
IndexDocuments(s, documents) ==
    LET embeddings == [i \in 1..Len(documents) |-> encode(s.model, documents[i].text)]
        dim == ModelDim(s.model)
    IN  [s EXCEPT !.dimension = dim,
                  !.index = IndexAdd(IndexFlatL2(dim), embeddings),
                  !.metadata = documents]

\* index_codebase without its test for an empty document list: the index is
\* rebuilt from nothing.
IndexNothing_unguarded(s) ==
    [s EXCEPT !.index = IndexFlatL2(s.dimension), !.metadata = <<>>]

\* The store index_codebase leaves when it raises "No documents to index".
IndexNothing(s) == s

\* CodeVectorStore.index_codebase: the store afterwards and the exception
\* raised ("" when none).  encode_ok is whether self.model.encode returned.
index_codebase(s, parsed_data, encode_ok) ==
    Only({ IF documents = <<>>
           THEN [store |-> IndexNothing(s),
                 error |-> "ValueError: No documents to index"]
           ELSE IF ~encode_ok
           THEN [store |-> s, error |-> "EmbeddingError"]
           ELSE [store |-> IndexDocuments(s, documents), error |-> ""] :
           documents \in {prepare_documents(parsed_data)} })

\* Squared Euclidean distance, the metric of IndexFlatL2.
SqDist(u, v) ==
    LET RECURSIVE Sum(_)
        Sum(i) == IF i = 0 THEN 0 ELSE (u[i] - v[i]) * (u[i] - v[i]) + Sum(i - 1)
    IN  Sum(Len(u))

\* The distance FAISS reports for a slot it could not fill (FLT_MAX there):
\* larger than any distance between two embeddings.
PadDistance == 16 * (MiniLMDim + 1) + 1

\* The distance of every stored vector to the query vector, by label.
Distances(index, q) ==
    [i \in 0..(index.ntotal - 1) |-> SqDist(Reconstruct(index, i), q)]

\* The place of every label in the order "nearer first, equal distances by
\* label".
RankOf(dist) ==
    [i \in DOMAIN dist |->
        Cardinality({j \in DOMAIN dist :
            dist[j] < dist[i] \/ (dist[j] = dist[i] /\ j < i)}) + 1]

\* All labels with their distances, nearest first.
NearestFirst(dist) ==
    Only({ [p \in 1..Cardinality(DOMAIN dist) |->
              LET i == CHOOSE i \in DOMAIN dist : pos[i] = p
              IN  [label |-> i, distance |-> dist[i]]] :
           pos \in {RankOf(dist)} })

\* The k slots FAISS fills: slots past ntotal hold label -1.
TopK(sorted, k) ==
    [p \in 1..k |-> IF p <= Len(sorted) THEN sorted[p]
                     ELSE [label |-> -1, distance |-> PadDistance]]

\* index.search(q, k): k (distance, label) pairs, nearest first.
IndexSearch(index, q, k) ==
    TopK(Only({NearestFirst(dist) : dist \in {Distances(index, q)}}), k)

\* Python's metadata[idx] for idx >= -1: a negative index counts from the end.
PyIndex(seq, idx) == IF idx < 0 THEN seq[Len(seq) + idx + 1] ELSE seq[idx + 1]

\* The labels that pass the test "idx < len(self.metadata)".
Kept(metadata, hits) == SelectSeq(hits, LAMBDA h : h.label < Len(metadata))

\* The loop of search_similar over the labels FAISS returned.
CollectResults(metadata, hits) ==
    Only({ [i \in 1..Len(kept) |->
              [metadata |-> PyIndex(metadata, kept[i].label).metadata,
               distance |-> kept[i].distance,
               text |-> PyIndex(metadata, kept[i].label).text]] :
           kept \in {Kept(metadata, hits)} })

\* search_similar returning an empty list where it should raise.
SearchNotReady_silent(s) == [store |-> s, error |-> "", results |-> <<>>]

\* What search_similar does on a store whose index is None.
SearchNotReady(s) ==
    [store |-> s, error |-> "ValueError: Index not initialized", results |-> <<>>]

\* The loop taking the records it returns out of the list (metadata.pop(idx)
\* where the code reads metadata[idx]).
SearchCollect_popping(s, hits) ==
    IF s.metadata = <<>> /\ Kept(s.metadata, hits) # <<>>
    THEN [store |-> s, error |-> "IndexError: list index out of range",
          results |-> <<>>]
    ELSE [store |-> [s EXCEPT !.metadata =
                        IF Kept(s.metadata, hits) = <<>> THEN @
                        ELSE SubSeq(@, 1, Len(@) - 1)],
          error |-> "", results |-> CollectResults(s.metadata, hits)]

\* The loop of search_similar over FAISS's answer; metadata[-1] of an empty
\* list raises.
SearchCollect(s, hits) ==
    IF s.metadata = <<>> /\ Kept(s.metadata, hits) # <<>>
    THEN [store |-> s, error |-> "IndexError: list index out of range",
          results |-> <<>>]
    ELSE [store |-> s, error |-> "", results |-> CollectResults(s.metadata, hits)]

\* search_similar once the query is embedded: FAISS refuses a query of
\* another dimension than the index.
SearchReady(s, q, k) ==
    IF Len(q) # s.index.d
    THEN [store |-> s, error |-> "AssertionError: dimension", results |-> <<>>]
    ELSE Only({ SearchCollect(s, hits) : hits \in {IndexSearch(s.index, q, k)} })

\* CodeVectorStore.search_similar: the store afterwards, the exception raised
\* ("" when none) and the results returned.
search_similar(s, query, k) ==
    IF s.index.none
    THEN SearchNotReady(s)
    ELSE Only({ SearchReady(s, q, k) : q \in {encode(s.model, query)} })

\* faiss.write_index: the dimension, the count and the vectors, in a row.
write_index(index) == <<index.d, index.ntotal>> \o index.xb

\* faiss.read_index
read_index(file) ==
    [none |-> FALSE, d |-> file[1], ntotal |-> file[2],
     xb |-> SubSeq(file, 3, 2 + file[1] * file[2])]

\* pickle.dump and pickle.load of the metadata list.
pickle_dump(metadata) == metadata
pickle_load(file) == file

NoDisk == [has_faiss |-> FALSE, faiss |-> <<>>, has_pkl |-> FALSE, pkl |-> <<>>]

\* An index.faiss whose writing was cut short: its last number is missing.
Truncated(file) == SubSeq(file, 1, Len(file) - 1)

\* Whether a file holds all that its header announces.
WholeIndexFile(file) == Len(file) >= 2 /\ Len(file) = 2 + file[1] * file[2]

\* What can happen to a save: it completes; the process dies while
\* index.faiss is written; index.faiss is written and metadata.pkl cannot be
\* opened, or the process dies before it is.
SaveModes == {"ok", "crash_in_index", "fail_metadata"}

\* CodeVectorStore.save: the files afterwards and the exception raised.
save(s, files, io) ==
    IF s.index.none
    THEN [disk |-> files, error |-> "ValueError: No index to save"]
    ELSE IF io = "crash_in_index"
    THEN [disk |-> [files EXCEPT !.has_faiss = TRUE,
                                 !.faiss = Truncated(write_index(s.index))],
          error |-> "crash"]
    ELSE IF io = "fail_metadata"
    THEN [disk |-> [files EXCEPT !.has_faiss = TRUE, !.faiss = write_index(s.index)],
          error |-> "OSError"]
    ELSE [disk |-> [has_faiss |-> TRUE, faiss |-> write_index(s.index),
                    has_pkl |-> TRUE, pkl |-> pickle_dump(s.metadata)],
          error |-> ""]

\* load that reads the index and forgets the metadata.
LoadMetadata_skipped(s, files) == s

\* The assignment of the unpickled list to self.metadata in load.
LoadMetadata(s, files) == [s EXCEPT !.metadata = pickle_load(files.pkl)]

\* CodeVectorStore.load: the store afterwards and the exception raised.
load(s, files) ==
    IF ~files.has_faiss
    THEN [store |-> s, error |-> "RuntimeError: could not open index.faiss"]
    ELSE IF ~WholeIndexFile(files.faiss)
    THEN [store |-> s, error |-> "RuntimeError: read error in index.faiss"]
    ELSE LET s1 == [s EXCEPT !.index = read_index(files.faiss)]
         IN  IF ~files.has_pkl
             THEN [store |-> s1, error |-> "FileNotFoundError: metadata.pkl"]
             ELSE [store |-> LoadMetadata(s1, files), error |-> ""]

(***************************************************************************)
(* Texts: sequences of tokens.  "NL" is a line break and "SP" a run of     *)
(* blanks; every other token is a piece of text without white space at its *)
(* ends.                                                                   *)
(***************************************************************************)

IsSpace(tok) == tok \in {"NL", "SP"}

RECURSIVE LStrip(_)
LStrip(t) == IF t # <<>> /\ IsSpace(Head(t)) THEN LStrip(Tail(t)) ELSE t

RECURSIVE RStrip(_)
RStrip(t) ==
    IF t # <<>> /\ IsSpace(t[Len(t)]) THEN RStrip(SubSeq(t, 1, Len(t) - 1)) ELSE t

\* str.strip()
Strip(t) == RStrip(LStrip(t))

RECURSIVE Join(_, _)
\* sep.join(parts)
Join(parts, sep) ==
    IF parts = <<>> THEN <<>>
    ELSE IF Len(parts) = 1 THEN parts[1]
    ELSE parts[1] \o sep \o Join(Tail(parts), sep)

\* Whether pat occurs in t at position i.
MatchAt(t, pat, i) ==
    /\ i + Len(pat) - 1 <= Len(t)
    /\ \A j \in 1..Len(pat) : t[i + j - 1] = pat[j]

\* Python's "pat in t"
Contains(t, pat) == \E i \in 1..Len(t) : MatchAt(t, pat, i)

\* The position of the first occurrence of pat in t (0 when there is none).
Find(t, pat) ==
    IF Contains(t, pat)
    THEN CHOOSE i \in 1..Len(t) :
            MatchAt(t, pat, i) /\ \A j \in 1..(i - 1) : ~MatchAt(t, pat, j)
    ELSE 0

RECURSIVE Split(_, _)
\* t.split(pat): the pieces between the occurrences of pat, left to right.
Split(t, pat) ==
    Only({ IF i = 0 THEN <<t>>
           ELSE <<SubSeq(t, 1, i - 1)>>
                \o Split(SubSeq(t, i + Len(pat), Len(t)), pat) :
           i \in {Find(t, pat)} })

\* t.split('\n')
SplitLines(t) == Split(t, <<"NL">>)

\* line.startswith(tok), for a token that begins a line
StartsWith(line, toks) == line # <<>> /\ Head(line) \in toks

(***************************************************************************)
(* RAGPipeline                                                             *)
(***************************************************************************)

\* The query _build_context forms from an element: its type and its name.
Query(t, n) == [kind |-> "query", type |-> t, name |-> n]

\* The k of the search _build_context makes.
ContextK == 3

\* Python's truth value of a docstring: None and '' are false.
Truthy(d) == d # None /\ d # ""

\* No context_elements argument (None), or the list given.
NoContextGiven == [none |-> TRUE, elems |-> <<>>]
ContextGiven(es) == [none |-> FALSE, elems |-> es]

\* The elements _build_context keeps of the candidates: those with a
\* docstring.
ContextFilter(target, candidates) ==
    SelectSeq(candidates, LAMBDA e : Truthy(e.docstring))

\* The string _build_context makes of the elements it kept.
ContextString(entries) ==
    Join([i \in 1..Len(entries) |->
            <<"Similar", entries[i].type, entries[i].name, ":",
              entries[i].docstring>>], <<"NL">>)

\* The context of a list of candidate elements.
ContextOf(target, candidates) ==
    Only({ [error |-> "", entries |-> entries, text |-> ContextString(entries)] :
           entries \in {ContextFilter(target, candidates)} })

\* A context together with the store as building it left it.
WithStore(ctx, s) ==
    [error |-> ctx.error, entries |-> ctx.entries, text |-> ctx.text, store |-> s]

\* RAGPipeline._build_context: the exception raised ("" when none), the
\* elements that went into the context, the context string, and the store
\* afterwards.
build_context(s, target, given) ==
    IF ~given.none
    THEN WithStore(ContextOf(target, given.elems), s)
    ELSE Only({ IF r.error # ""
                THEN [error |-> r.error, entries |-> <<>>, text |-> <<>>,
                      store |-> r.store]
                ELSE WithStore(ContextOf(target,
                         [i \in 1..Len(r.results) |-> r.results[i].metadata]),
                         r.store) :
                r \in {search_similar(s, Query(target.type, target.name), ContextK)} })

\* RAGPipeline._create_documentation_prompt
create_documentation_prompt(code_element, context) ==
    <<"NL", "SP", "Please generate comprehensive documentation for the following",
      code_element.type, "NL", "SP", "Name:", code_element.name, "NL", "SP",
      "File:", code_element.file_path, "NL", "SP", "Arguments:">>
    \o code_element.args
    \o <<"NL", "SP", "Existing Documentation:", code_element.docstring, "NL", "SP",
         "Context from similar code elements:", "NL", "SP">>
    \o context
    \o <<"NL", "SP", "Please generate: 1. A clear docstring ...", "NL", "SP">>

\* What the generation backend may do with a request.
Behaviours == {"raise", "empty", "answer", "echo"}

\* The text of the backend's reply.
Reply(behaviour, prompt, name) ==
    CASE behaviour = "empty" -> <<>>
      [] behaviour = "echo" -> prompt
      [] OTHER -> <<"SP", "Documents", name, "NL">>

\* What generate_documentation returns when the backend call raises.
RagOnFailure == <<"Error generating documentation:", "backend failure">>

\* generate_documentation from the point where the context is built.
GenerateWith(code_element, ctx, prompt, behaviour) ==
    LET base == [raised |-> ctx.error, entries |-> ctx.entries, context |-> ctx.text,
                 prompt |-> <<>>, backend |-> "", response |-> <<>>, calls |-> 0,
                 ret |-> <<>>, store |-> ctx.store]
    IN  IF ctx.error # "" THEN base
        ELSE IF behaviour = "raise"
        THEN [base EXCEPT !.prompt = prompt, !.backend = behaviour, !.calls = 1,
                          !.ret = RagOnFailure]
        ELSE [base EXCEPT !.prompt = prompt, !.backend = behaviour, !.calls = 1,
                          !.response = Reply(behaviour, prompt, code_element.name),
                          !.ret = Strip(Reply(behaviour, prompt, code_element.name))]

\* RAGPipeline.generate_documentation: raised is the exception that reaches
\* the caller ("" when none), ret the string returned.
RAG_generate_documentation(s, code_element, given, behaviour) ==
    Only({ Only({ GenerateWith(code_element, ctx, prompt, behaviour) :
                  prompt \in {create_documentation_prompt(code_element, ctx.text)} }) :
           ctx \in {build_context(s, code_element, given)} })

(***************************************************************************)
(* FixedDocGenerator (minimal_doc_assistant.py).  Source text is a token    *)
(* sequence: "Q3" and "A3" are the two triple quotes, "FENCE" three        *)
(* backticks, "def" and "class" the keyword with the blank after it, "SP"  *)
(* four blanks.                                                            *)
(***************************************************************************)

\* Tokens that are words (\w+).
Words == {"f", "g", "m", "C", "a", "b", "x", "self", "1"}

\* Tokens that begin with '#'.
HashTokens == {"#!", "# -*-", "#"}

\* The first position from i on that holds no blank (Len + 1 when none).
RECURSIVE SkipSpaces(_, _)
SkipSpaces(line, i) ==
    IF i <= Len(line) /\ IsSpace(line[i]) THEN SkipSpaces(line, i + 1) ELSE i

\* Whether def\s+(\w+)\s*\( matches at position i of the line; the word is
\* then at WordAt.
WordAt(line, i) == SkipSpaces(line, i + 1)
ParenAt(line, i) == SkipSpaces(line, WordAt(line, i) + 1)
DefMatchesAt(line, i) ==
    /\ i <= Len(line) /\ line[i] = "def"
    /\ WordAt(line, i) <= Len(line) /\ line[WordAt(line, i)] \in Words
    /\ ParenAt(line, i) <= Len(line) /\ line[ParenAt(line, i)] = "("

\* FixedDocGenerator._extract_function_name (None when the line does not
\* match).
extract_function_name(line) ==
    Only({ IF DefMatchesAt(t, 1) THEN t[WordAt(t, 1)] ELSE None :
           t \in {Strip(line)} })

\* FixedDocGenerator._extract_class_name
extract_class_name(line) ==
    Only({ IF t # <<>> /\ t[1] = "class" /\ WordAt(t, 1) <= Len(t)
              /\ t[WordAt(t, 1)] \in Words
           THEN t[WordAt(t, 1)] ELSE None :
           t \in {Strip(line)} })

\* FixedDocGenerator._next_line_has_docstring (current_index from 0)
next_line_has_docstring(lines, current_index) ==
    IF current_index + 1 >= Len(lines) THEN FALSE
    ELSE StartsWith(Strip(lines[current_index + 2]), {"Q3", "A3"})

\* The text between the parentheses that def\s+\w+\s*\((.*?)\) finds in the
\* line: found is FALSE when the line has no match.
ParamsStr(func_line) ==
    LET full(i) == /\ DefMatchesAt(func_line, i)
                   /\ \E c \in (ParenAt(func_line, i) + 1)..Len(func_line) :
                         func_line[c] = ")"
    IN  IF \E i \in 1..Len(func_line) : full(i)
        THEN LET i == CHOOSE i \in 1..Len(func_line) :
                          full(i) /\ \A j \in 1..(i - 1) : ~full(j)
                 o == ParenAt(func_line, i)
                 c == CHOOSE c \in (o + 1)..Len(func_line) :
                          /\ func_line[c] = ")"
                          /\ \A j \in (o + 1)..(c - 1) : func_line[j] # ")"
             IN  [found |-> TRUE, text |-> SubSeq(func_line, o + 1, c - 1)]
        ELSE [found |-> FALSE, text |-> <<>>]

RECURSIVE ParamNames(_)
\* The loop of _create_function_docstring over params_str.split(',').
ParamNames(pieces) ==
    IF pieces = <<>> THEN <<>>
    ELSE Only({ IF param # <<>> /\ param # <<"self">>
                THEN <<IF Contains(param, <<"=">>)
                       THEN Strip(Split(param, <<"=">>)[1]) ELSE param>>
                     \o ParamNames(Tail(pieces))
                ELSE ParamNames(Tail(pieces)) :
                param \in {Strip(Head(pieces))} })

RECURSIVE ArgLines(_)
\* "\n    {param}: Description" for every parameter.
ArgLines(params) ==
    IF params = <<>> THEN <<>>
    ELSE <<"NL", "SP">> \o Head(params) \o <<": Description">>
         \o ArgLines(Tail(params))

\* FixedDocGenerator._create_function_docstring
create_function_docstring(func_name, func_line) ==
    Only({ <<func_name, ".">>
           \o (IF params # <<>> THEN <<"NL", "NL", "Args:">> \o ArgLines(params)
               ELSE <<>>)
           \o <<"NL", "NL", "Returns:", "NL", "SP", "Description of return value">> :
           params \in { Only({ IF m.found THEN ParamNames(Split(m.text, <<",">>))
                               ELSE <<>> :
                               m \in {ParamsStr(func_line)} }) } })

\* FixedDocGenerator._create_class_docstring
create_class_docstring(class_name) ==
    <<class_name, ".", "NL", "NL", "Class description.">>

\* The number of leading lines that begin with '#!' or '# -*-'.
RECURSIVE LeadingComments(_, _)
LeadingComments(lines, i) ==
    IF i < Len(lines) /\ StartsWith(lines[i + 1], {"#!", "# -*-"})
    THEN LeadingComments(lines, i + 1) ELSE i

RECURSIVE HasModuleDocstring(_, _, _)
\* The loop "for j in range(i, min(i+5, len(lines)))" of _generate_local.
HasModuleDocstring(lines, j, stop) ==
    IF j >= stop THEN FALSE
    ELSE IF StartsWith(Strip(lines[j + 1]), {"Q3", "A3"}) THEN TRUE
    ELSE IF /\ Strip(lines[j + 1]) # <<>>
            /\ ~StartsWith(lines[j + 1], HashTokens)
            /\ ~StartsWith(lines[j + 1], {"import"})
    THEN FALSE
    ELSE HasModuleDocstring(lines, j + 1, stop)

\* The module docstring _generate_local adds, and the empty line after it.
ModuleDoc(file_path) ==
    << <<"Q3", file_path, "NL", "NL", "Module description.", "NL", "Q3">>, <<>> >>

\* The docstring line put after a def or class line.
DocLine(docstring) == <<"SP", "Q3">> \o docstring \o <<"Q3">>

\* What the main loop of _generate_local appends for line i (from 0): the
\* line, and a docstring line after a def or class line that has none.
LocalLine(lines, i) ==
    Only({ Only({
        IF StartsWith(t, {"def"})
        THEN IF extract_function_name(line) # None
                /\ ~next_line_has_docstring(lines, i)
             THEN <<line, DocLine(create_function_docstring(
                                      extract_function_name(line), line))>>
             ELSE <<line>>
        ELSE IF StartsWith(t, {"class"})
        THEN IF extract_class_name(line) # None
                /\ ~next_line_has_docstring(lines, i)
             THEN <<line, DocLine(create_class_docstring(extract_class_name(line)))>>
             ELSE <<line>>
        ELSE <<line>> :
        t \in {Strip(line)} }) : line \in {lines[i + 1]} })

RECURSIVE LocalRest(_, _)
LocalRest(lines, i) ==
    IF i >= Len(lines) THEN <<>>
    ELSE LocalLine(lines, i) \o LocalRest(lines, i + 1)

\* _generate_local that does not keep the shebang and encoding lines it
\* skips (the loop at lines 116-118 without its append).
LocalLines_without_leading(lines, file_path) ==
    Only({ (IF /\ (i = 0 \/ (i = 1 /\ StartsWith(lines[1], {"#!"})))
               /\ ~HasModuleDocstring(lines, i,
                       IF i + 5 < Len(lines) THEN i + 5 ELSE Len(lines))
            THEN ModuleDoc(file_path) ELSE <<>>)
           \o LocalRest(lines, i) :
           i \in {LeadingComments(lines, 0)} })

\* _generate_local on the lines of the file.
LocalLines(lines, file_path) ==
    Only({ SubSeq(lines, 1, i)
           \o (IF /\ (i = 0 \/ (i = 1 /\ StartsWith(lines[1], {"#!"})))
                  /\ ~HasModuleDocstring(lines, i,
                          IF i + 5 < Len(lines) THEN i + 5 ELSE Len(lines))
               THEN ModuleDoc(file_path) ELSE <<>>)
           \o LocalRest(lines, i) :
           i \in {LeadingComments(lines, 0)} })

\* FixedDocGenerator._generate_local
generate_local(content, file_path) ==
    Join(LocalLines(SplitLines(content), file_path), <<"NL">>)

(***************************************************************************)
(* The generation backend and the two file generators                      *)
(***************************************************************************)

\* The prompt of FixedDocGenerator._generate_with_gemini
FixedPromptHead ==
    <<"Please add comprehensive documentation to this Python code.", "NL", "NL",
      "Add:", "NL",
      "1. Module docstring if missing", "NL",
      "2. Class docstrings with Google style", "NL",
      "3. Function docstrings with parameters, returns, and examples", "NL",
      "4. Keep all existing code and functionality", "NL", "NL",
      "Return ONLY the complete Python code with documentation, no explanations.",
      "NL", "NL", "Code:", "NL">>

FixedPrompt(content) == FixedPromptHead \o content

\* The instruction lines of the prompt.
FixedInstructions ==
    {FixedPromptHead[i] : i \in 1..Len(FixedPromptHead)} \ {"NL"}

\* The prompt of DocGenerator._with_gemini
CleanPromptHead ==
    <<"Add Python documentation to this code. Return only the documented code:",
      "NL", "NL">>

CleanPrompt(content) == CleanPromptHead \o content

\* What the backend does with a request.
GeminiBehaviours ==
    {"raise", "empty", "unchanged", "echo", "answer", "fenced", "fenced_unchanged",
     "fenced_py", "two_blocks"}

\* A documented version of the content, as a backend that works writes it.
Documented(content) == <<"Q3", "Documented.", "Q3", "NL">> \o content

\* response.text of a backend that does not raise.
GeminiText(behaviour, prompt, content) ==
    CASE behaviour = "empty" -> <<>>
      [] behaviour = "unchanged" -> content
      [] behaviour = "echo" -> prompt
      [] behaviour = "answer" -> Documented(content)
      [] behaviour = "fenced" ->
            <<"Here is the documented code:", "NL", "FENCE", "python", "NL">>
            \o Documented(content) \o <<"NL", "FENCE", "NL", "Done.">>
      [] behaviour = "fenced_unchanged" ->
            <<"FENCE", "NL">> \o content \o <<"NL", "FENCE">>
      [] behaviour = "fenced_py" ->
            <<"FENCE", "py", "NL">> \o Documented(content) \o <<"NL", "FENCE">>
      [] behaviour = "two_blocks" ->
            <<"Install it first:", "NL", "FENCE", "NL", "pip install x", "NL",
              "FENCE", "NL", "FENCE", "python", "NL">>
            \o Documented(content) \o <<"NL", "FENCE">>

\* result.split(open)[1].split("```")[0]
FenceBody(result, open) == Split(Split(result, open)[2], <<"FENCE">>)[1]

\* The cleaning of the response in FixedDocGenerator._generate_with_gemini
FixedClean(text) ==
    Only({ IF Contains(result, <<"FENCE", "python">>)
           THEN Strip(FenceBody(result, <<"FENCE", "python">>))
           ELSE IF Contains(result, <<"FENCE">>)
           THEN Strip(FenceBody(result, <<"FENCE">>))
           ELSE result :
           result \in {Strip(text)} })

\* The cleaning of the response in DocGenerator._with_gemini
CleanClean(text) ==
    Only({ IF Contains(result, <<"FENCE", "python">>)
           THEN FenceBody(result, <<"FENCE", "python">>)
           ELSE IF Contains(result, <<"FENCE">>)
           THEN FenceBody(result, <<"FENCE">>)
           ELSE result :
           result \in {Strip(text)} })

NoChanges == "ValueError: No changes made by Gemini"
BackendError == "Exception: backend failed"

\* FixedDocGenerator._generate_with_gemini: the exception is printed and
\* raised again.
generate_with_gemini(content, behaviour) ==
    IF behaviour = "raise"
    THEN [error |-> BackendError, prompt |-> FixedPrompt(content),
          response |-> <<>>, result |-> <<>>]
    ELSE Only({ Only({
            [error |-> IF result = <<>> \/ result = content THEN NoChanges ELSE "",
             prompt |-> FixedPrompt(content), response |-> text,
             result |-> result] :
            result \in {FixedClean(text)} }) :
            text \in {GeminiText(behaviour, FixedPrompt(content), content)} })

\* lines[:5] of DocGenerator._local_docs has a line that starts with '"""'
FirstLinesHaveDocstring(lines) ==
    \E i \in 1..(IF Len(lines) < 5 THEN Len(lines) ELSE 5) :
        StartsWith(Strip(lines[i]), {"Q3"})

\* DocGenerator._local_docs
local_docs(content, file_path) ==
    Only({ Join((IF ~FirstLinesHaveDocstring(lines)
                 THEN << <<"Q3", file_path>>, <<>>, <<"Module description.">>,
                         <<"Q3">>, <<>> >>
                 ELSE <<>>) \o lines, <<"NL">>) :
           lines \in {SplitLines(content)} })

\* DocGenerator._with_gemini: a backend failure falls back to _local_docs
\* under the name "file.py".
with_gemini(content, behaviour) ==
    IF behaviour = "raise"
    THEN [error |-> BackendError, prompt |-> CleanPrompt(content),
          response |-> <<>>, result |-> local_docs(content, "file.py")]
    ELSE Only({ [error |-> "", prompt |-> CleanPrompt(content), response |-> text,
                 result |-> CleanClean(text)] :
                text \in {GeminiText(behaviour, CleanPrompt(content), content)} })

\* The marker test of FixedDocGenerator.generate_documentation
HasPromptMarker(documented_content) ==
    \/ Contains(documented_content, <<"{code}">>)
    \/ Contains(documented_content, <<"CODE TO DOCUMENT">>)

\* Files
FileName(file_path) == <<file_path>>

SecondsPerDay == 2

\* strftime('%Y%m%d_%H%M%S') and strftime('%H%M%S') of the clock
FixedStamp(now) == <<now \div SecondsPerDay, "_", now % SecondsPerDay>>
CleanStamp(now) == <<now % SecondsPerDay>>

\* f"{file_path}.backup_{stamp}"
BackupName(file_path, stamp) == <<file_path, ".backup_">> \o stamp

\* open(name, 'w') and f.write(text)
WriteFile(fs, name, text) ==
    [n \in (DOMAIN fs) \cup {name} |-> IF n = name THEN text ELSE fs[n]]

\* What can happen to the two writes of a run.
IOModes == {"ok", "backup_fail", "write_fail"}

\* The backup and the overwrite, in this order; the first failing open ends
\* the run.
BackupAndWrite(fs, file_path, backup_path, original, documented, io) ==
    IF io = "backup_fail"
    THEN [files |-> fs, error |-> "OSError: backup", backup |-> FALSE,
          written |-> FALSE]
    ELSE IF io = "write_fail"
    THEN [files |-> WriteFile(fs, backup_path, original),
          error |-> "OSError: write", backup |-> TRUE, written |-> FALSE]
    ELSE [files |-> WriteFile(WriteFile(fs, backup_path, original),
                              FileName(file_path), documented),
          error |-> "", backup |-> TRUE, written |-> TRUE]

NoRun ==
    [op |-> "none", file_path |-> "", preview |-> FALSE, io |-> "",
     read |-> FALSE, original |-> <<>>, calls |-> 0, backend |-> "",
     prompt |-> <<>>, response |-> <<>>, result |-> <<>>, error |-> "",
     produced |-> FALSE, source |-> "", documented |-> <<>>,
     shown |-> FALSE, backup |-> FALSE, written |-> FALSE, ret |-> ""]

\* The documented content FixedDocGenerator.generate_documentation arrives
\* at (lines 44-51), as fields of the run.
FixedDocumented(r, gemini, behaviour) ==
    IF ~gemini
    THEN [r EXCEPT !.produced = TRUE, !.source = "local",
                   !.documented = generate_local(r.original, r.file_path)]
    ELSE Only({
        LET called == [r EXCEPT !.calls = 1, !.backend = behaviour,
                                !.prompt = g.prompt, !.response = g.response,
                                !.result = g.result]
        IN  IF g.error # "" THEN [called EXCEPT !.error = g.error]
            ELSE IF HasPromptMarker(g.result)
            THEN [called EXCEPT !.produced = TRUE, !.source = "local",
                                !.documented = generate_local(r.original, r.file_path)]
            ELSE [called EXCEPT !.produced = TRUE, !.source = "backend",
                                !.documented = g.result] :
        g \in {generate_with_gemini(r.original, behaviour)} })

\* The documented content DocGenerator._process_file arrives at (lines 70-73).
CleanDocumented(r, gemini, behaviour) ==
    IF ~gemini
    THEN [r EXCEPT !.produced = TRUE, !.source = "local",
                   !.documented = local_docs(r.original, r.file_path)]
    ELSE Only({
        [r EXCEPT !.calls = 1, !.backend = behaviour, !.prompt = g.prompt,
                  !.response = g.response, !.result = g.result,
                  !.produced = TRUE,
                  !.source = IF g.error # "" THEN "local" ELSE "backend",
                  !.documented = g.result] :
        g \in {with_gemini(r.original, behaviour)} })

\* The end of a run: the preview, or the backup and the overwrite.
Output(fs, d, backup_path, io) ==
    IF ~d.produced THEN [files |-> fs, run |-> d]
    ELSE IF d.preview THEN [files |-> fs, run |-> [d EXCEPT !.shown = TRUE]]
    ELSE Only({ [files |-> w.files,
                 run |-> [d EXCEPT !.io = io, !.error = w.error,
                                   !.backup = w.backup, !.written = w.written]] :
                w \in {BackupAndWrite(fs, d.file_path, backup_path, d.original,
                                      d.documented, io)} })

\* generate_documentation without its "except Exception": the exception
\* leaves the call.
FixedReturn_uncaught(error) == IF error = "" THEN "True" ELSE "raised"

\* What generate_documentation returns: True at the end of the try block
\* (lines 55 and 67), False from the handler that catches every Exception
\* (lines 69-71).
FixedReturn(error) == IF error = "" THEN "True" ELSE "False"

\* FixedDocGenerator.generate_documentation: True when the run got to its
\* end, False when an exception was caught.
Fixed_generate_documentation(fs, now, gemini, file_path, preview, behaviour, io) ==
    LET r == [NoRun EXCEPT !.op = "FixedDocGenerator.generate_documentation",
                           !.file_path = file_path, !.preview = preview]
    IN  IF FileName(file_path) \notin DOMAIN fs
        THEN [files |-> fs,
              run |-> [r EXCEPT !.error = "FileNotFoundError",
                                !.ret = FixedReturn("FileNotFoundError")]]
        ELSE Only({ [files |-> o.files,
                     run |-> [o.run EXCEPT
                                !.ret = FixedReturn(o.run.error)]] :
                    o \in {Output(fs,
                              FixedDocumented(
                                  [r EXCEPT !.read = TRUE,
                                            !.original = fs[FileName(file_path)]],
                                  gemini, behaviour),
                              BackupName(file_path, FixedStamp(now)), io)} })

\* DocGenerator._process_file: returns nothing; an exception is caught and
\* printed.
process_file(fs, now, gemini, file_path, preview, behaviour, io) ==
    LET r == [NoRun EXCEPT !.op = "DocGenerator._process_file",
                           !.file_path = file_path, !.preview = preview,
                           !.ret = "None"]
    IN  IF FileName(file_path) \notin DOMAIN fs
        THEN [files |-> fs, run |-> [r EXCEPT !.error = "FileNotFoundError"]]
        ELSE Output(fs,
                    CleanDocumented(
                        [r EXCEPT !.read = TRUE,
                                  !.original = fs[FileName(file_path)]],
                        gemini, behaviour),
                    BackupName(file_path, CleanStamp(now)), io)

(***************************************************************************)
(* ParserAgent (agents/parser_agent.py): the build of code_index.pkl       *)
(***************************************************************************)

\* What happens when a file of the codebase is parsed: the AST parse
\* succeeds; ast.parse raises SyntaxError; it raises another exception; the
\* file cannot be read.
ParseKinds == {"ok", "syntax_error", "parse_error", "unreadable"}

\* The names of the files of a codebase, in the order rglob lists them, and
\* the function each defines.
PyFile(i) == CASE i = 1 -> "a.py" [] i = 2 -> "b.py" [] i = 3 -> "c.py" [] OTHER -> "d.py"
FunctionOf(i) == CASE i = 1 -> "f" [] i = 2 -> "g" [] i = 3 -> "h" [] OTHER -> "k"

\* An element record; has_name and has_signature are whether the dictionary
\* has the keys 'name' and 'signature'.
Element(type, has_name, name, has_signature, file_path) ==
    [type |-> type, has_name |-> has_name, name |-> name,
     has_signature |-> has_signature, file_path |-> file_path]

\* ParserAgent._parse_with_ast: ast.walk yields the module, then the function.
parse_with_ast(i) ==
    << Element("module", FALSE, "", FALSE, PyFile(i)),
       Element("function", TRUE, FunctionOf(i), TRUE, PyFile(i)) >>

\* ParserAgent._fallback_parsing: the lines that match the def pattern.
fallback_parsing(i) == << Element("function", TRUE, FunctionOf(i), FALSE, PyFile(i)) >>

\* ParserAgent.parse_file: the 'elements' of what it returns; raised is
\* whether open or read raised, which parse_file does not catch.
parse_file(i, kind) ==
    CASE kind = "ok" -> [raised |-> FALSE, elements |-> parse_with_ast(i)]
      [] kind = "syntax_error" -> [raised |-> FALSE, elements |-> fallback_parsing(i)]
      [] kind = "parse_error" -> [raised |-> FALSE, elements |-> <<>>]
      [] kind = "unreadable" -> [raised |-> TRUE, elements |-> <<>>]

RECURSIVE ParseAll(_, _)
\* The loop over python_files from file i on: all elements, or raised.
ParseAll(codebase, i) ==
    IF i > Len(codebase) THEN [raised |-> FALSE, elements |-> <<>>]
    ELSE Only({ IF p.raised THEN p
                ELSE Only({ IF rest.raised THEN rest
                            ELSE [raised |-> FALSE,
                                  elements |-> p.elements \o rest.elements] :
                            rest \in {ParseAll(codebase, i + 1)} }) :
                p \in {parse_file(i, codebase[i])} })

\* The text embedded for an element (lines 147-151).
TextToEmbed(elem) ==
    [kind |-> "element", type |-> elem.type, name |-> elem.name,
     signature |-> elem.has_signature, file |-> elem.file_path]

\* self.embedding_model.encode(texts)
EmbedAll(texts) ==
    [i \in 1..Len(texts) |-> <<NameCode(texts[i].name), TypeCode(texts[i].type)>>]

NoCodeIndex ==
    [exists |-> FALSE, elements |-> <<>>, embeddings |-> <<>>,
     total_files |-> 0, total_elements |-> 0]

\* ParserAgent.index_codebase on a codebase whose i-th file parses as
\* codebase[i]; embed_fails_on is the file whose texts the embedder cannot
\* embed (0 when there is none).  Every exception is caught and False
\* returned.
Agent_index_codebase(old, codebase, embed_fails_on) ==
    Only({
        IF parsed.raised
        THEN [code_index |-> old, ret |-> "False", error |-> "OSError: read"]
        ELSE IF \E j \in 1..Len(parsed.elements) : ~parsed.elements[j].has_name
        THEN [code_index |-> old, ret |-> "False", error |-> "KeyError: 'name'"]
        ELSE IF /\ embed_fails_on # 0
                /\ \E j \in 1..Len(parsed.elements) :
                       parsed.elements[j].file_path = PyFile(embed_fails_on)
        THEN [code_index |-> old, ret |-> "False", error |-> "EmbeddingError"]
        ELSE [code_index |->
                 [exists |-> TRUE, elements |-> parsed.elements,
                  embeddings |-> EmbedAll([j \in 1..Len(parsed.elements) |->
                                              TextToEmbed(parsed.elements[j])]),
                  total_files |-> Len(codebase),
                  total_elements |-> Len(parsed.elements)],
              ret |-> "True", error |-> ""] :
        parsed \in {ParseAll(codebase, 1)} })

(***************************************************************************)
(* CodeParser (core/code_parser.py)                                        *)
(***************************************************************************)

\* What a file found under the codebase path is: a Python file that
\* ast.parse accepts, one it rejects, a file of another supported language,
\* a file that cannot be read, a file whose extension is not supported.
SourceKinds ==
    {"python", "python_syntax_error", "javascript", "unreadable", "unsupported"}

\* A file with its numbers of function and class definitions.
SourceFile(kind, functions, classes) ==
    [kind |-> kind, functions |-> functions, classes |-> classes]

\* CodeParser._is_supported_file
is_supported_file(f) == f.kind # "unsupported"

\* CodeParser._extract_function_data and _extract_class_data for the j-th
\* definition of file i.
FunctionData(i, j) == [name |-> j, file_path |-> PyFile(i), type |-> "function"]
ClassData(i, j) == [name |-> j, file_path |-> PyFile(i), type |-> "class"]

\* The file_data dictionary _parse_file starts with.
FileData(i, language) ==
    [none |-> FALSE, path |-> PyFile(i), language |-> language,
     functions |-> <<>>, classes |-> <<>>]

\* CodeParser._parse_python_file: the records go into file_data; ast.parse
\* raises SyntaxError before any record is made.
parse_python_file(i, f, file_data) ==
    IF f.kind = "python_syntax_error" THEN file_data
    ELSE [file_data EXCEPT
            !.functions = [j \in 1..f.functions |-> FunctionData(i, j)],
            !.classes = [j \in 1..f.classes |-> ClassData(i, j)]]

\* CodeParser._parse_file: None when reading the file raises.
CodeParser_parse_file(i, f) ==
    IF f.kind = "unreadable" THEN [FileData(i, "") EXCEPT !.none = TRUE]
    ELSE IF f.kind \in {"python", "python_syntax_error"}
    THEN parse_python_file(i, f, FileData(i, "python"))
    ELSE FileData(i, f.kind)

RECURSIVE ParsedFiles(_, _)
\* The loop of parse_codebase over rglob('*') from file i on: the file_data
\* appended to parsed_data['files'].
ParsedFiles(codebase, i) ==
    IF i > Len(codebase) THEN <<>>
    ELSE IF ~is_supported_file(codebase[i]) THEN ParsedFiles(codebase, i + 1)
    ELSE Only({ (IF file_data.none THEN <<>> ELSE <<file_data>>)
                \o ParsedFiles(codebase, i + 1) :
                file_data \in {CodeParser_parse_file(i, codebase[i])} })

\* CodeParser.parse_codebase: nothing is ever appended to the lists
\* parsed_data['functions'] and parsed_data['classes'] of line 38 and 39.
parse_codebase(codebase) ==
    Only({ LET functions == <<>>
               classes == <<>>
           IN  [files |-> files, functions |-> functions, classes |-> classes,
                summary |-> [total_files |-> Len(files),
                             total_functions |-> Len(functions),
                             total_classes |-> Len(classes)]] :
           files \in {ParsedFiles(codebase, 1)} })

NoParse == [op |-> "none", codebase |-> <<>>, data |-> parse_codebase(<<>>)]

(***************************************************************************)
(* The calls                                                               *)
(***************************************************************************)

Queries == {Query("function", "f"), Query("class", "C")}

\* k = 5 is search_similar's default, k = 3 what _build_context asks for.
Ks == {1, 3, 5}

NoCall ==
    [op |-> "none", model |-> "", parsed |-> Parsed(<<>>, <<>>),
     query |-> Query("", ""), k |-> 0, io |-> "", error |-> "", results |-> <<>>,
     ready |-> FALSE,
     target |-> Elem("", "", "", "", <<>>), given |-> NoContextGiven,
     entries |-> <<>>, context |-> <<>>, prompt |-> <<>>, backend |-> "",
     response |-> <<>>, calls |-> 0, ret |-> <<>>]

\* No completed save stands behind the files on disk.
NotSaved == [valid |-> FALSE, store |-> NewStore("all-MiniLM-L6-v2")]

\* No file, no generator with a backend, no run.
GenIdle ==
    /\ filesystem = <<>>
    /\ clock = 0
    /\ use_gemini = FALSE
    /\ gemini_available = FALSE
    /\ run = NoRun
    /\ runs = 0

NoBuild == [op |-> "none", codebase |-> <<>>, embed_fails_on |-> 0,
            ret |-> "", error |-> ""]

\* Nothing was built.
AgentIdle ==
    /\ code_index = NoCodeIndex
    /\ build = NoBuild

\* No command-line run was started.
NoBatch ==
    [op |-> "none", generator |-> "", path |-> "", preview |-> FALSE,
     listing |-> <<>>, todo |-> <<>>, done |-> <<>>, state |-> "idle",
     before |-> <<>>, restored |-> FALSE, interrupt |-> ""]

\* No second thread is inside index_codebase.
NoAdding ==
    [pc |-> "idle", documents |-> <<>>, before |-> NewStore("all-MiniLM-L6-v2")]

\* No command-line run, no add under way, nothing parsed.
ToolsIdle ==
    /\ batch = NoBatch
    /\ adding = NoAdding
    /\ parse = NoParse

Init ==
    /\ store \in {NewStore(m) : m \in ModelNames}
    /\ disk = NoDisk
    /\ saved = NotSaved
    /\ last = [NoCall EXCEPT !.op = "init", !.model = store.model]
    /\ GenIdle
    /\ AgentIdle
    /\ ToolsIdle

\* store = CodeVectorStore(model_name): a fresh store replaces the old one.
Construct(model_name) ==
    /\ store' = NewStore(model_name)
    /\ last' = [NoCall EXCEPT !.op = "init", !.model = model_name]
    /\ UNCHANGED <<disk, saved, genvars, agentvars, toolvars>>

\* store.index_codebase(parsed_data)
IndexCodebase(parsed_data, encode_ok) ==
    \E r \in {index_codebase(store, parsed_data, encode_ok)} :
        /\ store' = r.store
        /\ last' = [NoCall EXCEPT !.op = "index_codebase", !.parsed = parsed_data,
                                  !.ready = ~store.index.none,
                                  !.io = IF encode_ok THEN "" ELSE "encode_fails",
                                  !.error = r.error]
        /\ UNCHANGED <<disk, saved, genvars, agentvars, toolvars>>

\* store.search_similar(query, k)
SearchSimilar(query, k) ==
    \E r \in {search_similar(store, query, k)} :
        /\ store' = r.store
        /\ last' = [NoCall EXCEPT !.op = "search_similar", !.query = query, !.k = k,
                                  !.error = r.error, !.results = r.results]
        /\ UNCHANGED <<disk, saved, genvars, agentvars, toolvars>>

\* store.save(path)
Save(io) ==
    \E r \in {save(store, disk, io)} :
        /\ disk' = r.disk
        /\ saved' = IF r.error = "" THEN [valid |-> TRUE, store |-> store]
                    ELSE IF r.disk = disk THEN saved
                    ELSE NotSaved
        /\ last' = [NoCall EXCEPT !.op = "save", !.io = io, !.error = r.error]
        /\ UNCHANGED <<store, genvars, agentvars, toolvars>>

\* store.load(path)
Load ==
    \E r \in {load(store, disk)} :
        /\ store' = r.store
        /\ last' = [NoCall EXCEPT !.op = "load", !.error = r.error]
        /\ UNCHANGED <<disk, saved, genvars, agentvars, toolvars>>

\* The elements documentation is asked for.
kA == Elem("k", "a.py", "function", None, <<"x">>)
Targets == {fA, kA}

\* The context_elements arguments tried.
Givens == {NoContextGiven, ContextGiven(<<>>), ContextGiven(<<gA, fA, fB>>)}

\* rag.generate_documentation(code_element, context_elements)
RagGenerate(code_element, given, behaviour) ==
    \E r \in {RAG_generate_documentation(store, code_element, given, behaviour)} :
        /\ last' = [NoCall EXCEPT !.op = "generate_documentation",
                                  !.target = code_element, !.given = given,
                                  !.error = r.raised, !.entries = r.entries,
                                  !.context = r.context, !.prompt = r.prompt,
                                  !.backend = r.backend, !.response = r.response,
                                  !.calls = r.calls, !.ret = r.ret]
        /\ store' = r.store
        /\ UNCHANGED <<disk, saved, genvars, agentvars, toolvars>>

Next ==
    \/ \E m \in ModelNames : Construct(m)
    \/ \E p \in ParsedInputs, ok \in BOOLEAN : IndexCodebase(p, ok)
    \/ \E q \in Queries, k \in Ks : SearchSimilar(q, k)
    \/ Save("ok")
    \/ Load
    \/ \E t \in Targets, g \in Givens, b \in Behaviours : RagGenerate(t, g, b)

Spec == Init /\ [][Next]_vars

\* The store with saves that do not complete.
NextFaults ==
    \/ \E m \in ModelNames : Construct(m)
    \/ \E p \in ParsedInputs, ok \in BOOLEAN : IndexCodebase(p, ok)
    \/ \E io \in SaveModes : Save(io)
    \/ Load

SpecFaults == Init /\ [][NextFaults]_vars

(***************************************************************************)
(* A second thread inside index_codebase.  The class has no lock, so the   *)
(* assignments of lines 28 to 33 are separate steps between which a        *)
(* search_similar of another thread can run.                               *)
(***************************************************************************)

\* Lines 18-25: the documents are prepared and embedded; no attribute of the
\* store is touched.  With no documents the call raises and nothing is
\* under way.
AddBegin(parsed_data) ==
    /\ adding.pc = "idle"
    /\ \E documents \in {prepare_documents(parsed_data)} :
          /\ documents # <<>>
          /\ adding' = [pc |-> "encoded", documents |-> documents, before |-> store]
    /\ UNCHANGED <<storevars, genvars, agentvars, batch, parse>>

\* Line 28: self.dimension = embeddings.shape[1]
AddSetDimension ==
    /\ adding.pc = "encoded"
    /\ store' = [store EXCEPT !.dimension = ModelDim(store.model)]
    /\ adding' = [adding EXCEPT !.pc = "dimension"]
    /\ UNCHANGED <<disk, saved, last, genvars, agentvars, batch, parse>>

\* Line 29: self.index = faiss.IndexFlatL2(self.dimension)
AddNewIndex ==
    /\ adding.pc = "dimension"
    /\ store' = [store EXCEPT !.index = IndexFlatL2(store.dimension)]
    /\ adding' = [adding EXCEPT !.pc = "index"]
    /\ UNCHANGED <<disk, saved, last, genvars, agentvars, batch, parse>>

\* Line 30: self.index.add(embeddings)
AddVectors ==
    /\ adding.pc = "index"
    /\ store' = [store EXCEPT !.index =
                    IndexAdd(@, [i \in 1..Len(adding.documents) |->
                                   encode(store.model, adding.documents[i].text)])]
    /\ adding' = [adding EXCEPT !.pc = "vectors"]
    /\ UNCHANGED <<disk, saved, last, genvars, agentvars, batch, parse>>

\* Line 33: self.metadata = documents; the call returns.
AddMetadata ==
    /\ adding.pc = "vectors"
    /\ store' = [store EXCEPT !.metadata = adding.documents]
    /\ adding' = NoAdding
    /\ UNCHANGED <<disk, saved, last, genvars, agentvars, batch, parse>>

\* One thread indexes step by step while another one searches; whole
\* index_codebase calls are made only while no add is under way.
NextConcurrent ==
    \/ \E p \in ParsedInputs : adding.pc = "idle" /\ IndexCodebase(p, TRUE)
    \/ \E p \in ParsedInputs : AddBegin(p)
    \/ AddSetDimension
    \/ AddNewIndex
    \/ AddVectors
    \/ AddMetadata
    \/ \E q \in Queries, k \in Ks : SearchSimilar(q, k)

SpecConcurrent == Init /\ [][NextConcurrent]_vars

(***************************************************************************)
(* The runs of the generators over files                                   *)
(***************************************************************************)

MaxRuns == 1
MaxClock == 2

\* Lines of source files.
DefF == <<"def", "f", "(", "a", ",", "SP", "b", "=", "1", ")", ":">>
ReturnA == <<"SP", "return", "SP", "a">>
ClassC == <<"class", "C", ":">>
DefM == <<"SP", "def", "m", "(", "self", ",", "x", ")", ":">>
DocOfF == <<"SP", "Q3", "f.", "Q3">>

\* Source files: a function; a script with a class; a file with its
\* docstrings; one expression; a template that holds the marker; no text.
FunctionFile == Join(<<DefF, ReturnA, <<>> >>, <<"NL">>)
ClassFile == Join(<< <<"#!">>, <<"import">>, ClassC, DefM, ReturnA>>, <<"NL">>)
DocumentedFile ==
    Join(<< <<"Q3", "Module.", "Q3">>, DefF, DocOfF, ReturnA, <<>> >>, <<"NL">>)
ExprFile == <<"x">>
TemplateFile == <<"x", "=", "{code}">>
EmptyFile == <<>>

\* A function whose parameter list runs over two lines, and one with a
\* parenthesis in a default value.
MultiLineFile ==
    Join(<< <<"def", "f", "(", "a", ",">>, <<"SP", "b", ")", ":">>, ReturnA, <<>> >>,
         <<"NL">>)
NestedDefaultFile ==
    Join(<< <<"def", "g", "(", "a", "=", "(", "1", ",", "1", ")", ",",
               "x", "=", "1", ")", ":">>,
            ReturnA>>, <<"NL">>)

\* A function with a comma and the word class in a default string:
\* def f(a, x='a, class C'):
StringDefaultFile ==
    Join(<< <<"def", "f", "(", "a", ",", "SP", "x", "=", "'", "a", ",", "SP",
               "class", "C", "'", ")", ":">>,
            ReturnA>>, <<"NL">>)

Paths == {"a.py", "b.py"}

\* A file system with a.py and, unless its text is None, b.py.
FileSystem(a, b) ==
    [n \in {FileName("a.py")} \cup (IF b = None THEN {} ELSE {FileName("b.py")}) |->
        IF n = FileName("a.py") THEN a ELSE b]

FileSystems ==
    {FileSystem(FunctionFile, ClassFile), FileSystem(ExprFile, DocumentedFile),
     FileSystem(TemplateFile, None), FileSystem(EmptyFile, None),
     FileSystem(MultiLineFile, NestedDefaultFile),
     FileSystem(StringDefaultFile, None)}

InitGen ==
    /\ store = NewStore("all-MiniLM-L6-v2")
    /\ disk = NoDisk
    /\ saved = NotSaved
    /\ last = [NoCall EXCEPT !.op = "init", !.model = store.model]
    /\ filesystem \in FileSystems
    /\ clock = 0
    /\ use_gemini \in BOOLEAN
    /\ gemini_available \in BOOLEAN
    /\ run = NoRun
    /\ runs = 0
    /\ AgentIdle
    /\ ToolsIdle

\* The backend behaviours and write outcomes a run can meet.
BehavioursFor(gemini) == IF gemini THEN GeminiBehaviours ELSE {""}
IOModesFor(preview) == IF preview THEN {""} ELSE IOModes

\* generator.generate_documentation(file_path, preview) of
\* minimal_doc_assistant.py
FixedGenerate(file_path, preview) ==
    /\ runs < MaxRuns
    /\ \E behaviour \in BehavioursFor(use_gemini), io \in IOModesFor(preview) :
          \E o \in {Fixed_generate_documentation(filesystem, clock, use_gemini,
                        file_path, preview, behaviour, io)} :
              /\ filesystem' = o.files
              /\ run' = o.run
    /\ runs' = runs + 1
    /\ UNCHANGED <<storevars, agentvars, toolvars, clock, use_gemini, gemini_available>>

\* generator._process_file(file_path, preview) of clean_doc_assistant.py
CleanProcess(file_path, preview) ==
    /\ runs < MaxRuns
    /\ \E behaviour \in BehavioursFor(gemini_available), io \in IOModesFor(preview) :
          \E o \in {process_file(filesystem, clock, gemini_available,
                        file_path, preview, behaviour, io)} :
              /\ filesystem' = o.files
              /\ run' = o.run
    /\ runs' = runs + 1
    /\ UNCHANGED <<storevars, agentvars, toolvars, clock, use_gemini, gemini_available>>

\* A second passes.
Tick ==
    /\ clock < MaxClock
    /\ clock' = clock + 1
    /\ UNCHANGED <<storevars, agentvars, toolvars, filesystem, use_gemini, gemini_available, run, runs>>

NextGen ==
    \/ \E p \in Paths, preview \in BOOLEAN : FixedGenerate(p, preview)
    \/ \E p \in Paths, preview \in BOOLEAN : CleanProcess(p, preview)
    \/ Tick

SpecGen == InitGen /\ [][NextGen]_vars

(***************************************************************************)
(* The builds of ParserAgent                                               *)
(***************************************************************************)

MaxFiles == 2

RECURSIVE SeqsUpTo(_, _)
\* The sequences over S of length at most n.
SeqsUpTo(S, n) ==
    IF n = 0 THEN {<<>>}
    ELSE SeqsUpTo(S, n - 1)
         \cup {Append(q, x) : q \in {r \in SeqsUpTo(S, n - 1) : Len(r) = n - 1},
                                x \in S}

\* The codebases: up to MaxFiles files, each parsing in one of the ways.
Codebases == SeqsUpTo(ParseKinds, MaxFiles)

\* agent.index_codebase(codebase_path, index_path)
BuildIndex(codebase, embed_fails_on) ==
    \E r \in {Agent_index_codebase(code_index, codebase, embed_fails_on)} :
        /\ code_index' = r.code_index
        /\ build' = [op |-> "index_codebase", codebase |-> codebase,
                     embed_fails_on |-> embed_fails_on,
                     ret |-> r.ret, error |-> r.error]
        /\ UNCHANGED <<storevars, genvars, toolvars>>

NextBuild ==
    \E codebase \in Codebases :
        \E embed_fails_on \in 0..Len(codebase) : BuildIndex(codebase, embed_fails_on)

SpecBuild == Init /\ [][NextBuild]_vars

(***************************************************************************)
(* Command-line runs over a directory: main of minimal_doc_assistant.py    *)
(* and DocGenerator.process of clean_doc_assistant.py.  The loop over the  *)
(* files is one step per file, so that time can pass and an interrupt can  *)
(* arrive between two files.                                               *)
(***************************************************************************)

\* The files Path(path).rglob("*.py") finds: the backups end in a stamp.
PyFiles(fs) == {p \in Paths : FileName(p) \in DOMAIN fs}

\* rglob promises no order: the lists that hold every file once.
Listings(fs) ==
    {q \in [1..Cardinality(PyFiles(fs)) -> PyFiles(fs)] :
        \A i, j \in 1..Cardinality(PyFiles(fs)) : q[i] = q[j] => i = j}

\* Whether the generator of the run has a backend.
GeminiOf(generator) ==
    IF generator = "FixedDocGenerator" THEN use_gemini ELSE gemini_available

\* The call the loop makes for a file: generate_documentation (line 274 of
\* minimal_doc_assistant.py) or _process_file (line 59 of
\* clean_doc_assistant.py).
GeneratorRun(generator, fs, now, gemini, file_path, preview, behaviour, io) ==
    IF generator = "FixedDocGenerator"
    THEN Fixed_generate_documentation(fs, now, gemini, file_path, preview, behaviour, io)
    ELSE process_file(fs, now, gemini, file_path, preview, behaviour, io)

\* Where a KeyboardInterrupt can reach the processing of a file: while it is
\* read and documented, inside the write of the backup, between the two
\* writes, inside the write of the source file.
InterruptPoints == {"generating", "in_backup", "before_write", "in_write"}

\* What a file holds when the write of a text was cut short: nothing, as
\* open(name, 'w') leaves it, or a first part of the text.
Cut(text, cut) == SubSeq(text, 1, IF cut = 0 THEN 0 ELSE Len(text) \div 2)

\* The processing of a file that a KeyboardInterrupt ends at the point:
\* neither "except Exception" catches it, so it leaves the call and the
\* loop.  possible is whether the run gets to the point at all.
InterruptedRun(generator, fs, now, gemini, file_path, preview, behaviour, point, cut) ==
    LET r == [NoRun EXCEPT
                !.op = IF generator = "FixedDocGenerator"
                       THEN "FixedDocGenerator.generate_documentation"
                       ELSE "DocGenerator._process_file",
                !.file_path = file_path, !.preview = preview, !.read = TRUE,
                !.original = fs[FileName(file_path)],
                !.error = "KeyboardInterrupt", !.ret = "raised"]
        backup_path == BackupName(file_path,
                           IF generator = "FixedDocGenerator"
                           THEN FixedStamp(now) ELSE CleanStamp(now))
    IN  IF point = "generating" THEN [possible |-> TRUE, files |-> fs, run |-> r]
        ELSE Only({
            LET stopped == [d EXCEPT !.error = "KeyboardInterrupt", !.ret = "raised"]
            IN  IF preview \/ ~d.produced \/ d.error # ""
                THEN [possible |-> FALSE, files |-> fs, run |-> r]
                ELSE IF point = "in_backup"
                THEN [possible |-> TRUE,
                      files |-> WriteFile(fs, backup_path, Cut(d.original, cut)),
                      run |-> stopped]
                ELSE IF point = "before_write"
                THEN [possible |-> TRUE,
                      files |-> WriteFile(fs, backup_path, d.original),
                      run |-> [stopped EXCEPT !.backup = TRUE]]
                ELSE [possible |-> TRUE,
                      files |-> WriteFile(WriteFile(fs, backup_path, d.original),
                                          FileName(file_path), Cut(d.documented, cut)),
                      run |-> [stopped EXCEPT !.backup = TRUE]] :
            d \in {IF generator = "FixedDocGenerator"
                   THEN FixedDocumented([r EXCEPT !.error = "", !.ret = ""],
                                        gemini, behaviour)
                   ELSE CleanDocumented([r EXCEPT !.error = "", !.ret = ""],
                                        gemini, behaviour)} })

\* The file systems the directory runs start from.
BatchFileSystems ==
    {FileSystem(FunctionFile, ClassFile), FileSystem(ExprFile, DocumentedFile),
     FileSystem(TemplateFile, None)}

InitBatch ==
    /\ store = NewStore("all-MiniLM-L6-v2")
    /\ disk = NoDisk
    /\ saved = NotSaved
    /\ last = [NoCall EXCEPT !.op = "init", !.model = store.model]
    /\ filesystem \in BatchFileSystems
    /\ clock = 0
    /\ use_gemini \in BOOLEAN
    /\ gemini_available \in BOOLEAN
    /\ run = NoRun
    /\ runs = 0
    /\ AgentIdle
    /\ ToolsIdle

\* The start of a run over the directory: the files are listed once.
StartBatch(op, generator, preview) ==
    /\ batch.state = "idle"
    /\ \E listing \in Listings(filesystem) :
          batch' = [NoBatch EXCEPT !.op = op, !.generator = generator,
                                   !.path = ".", !.preview = preview,
                                   !.listing = listing, !.todo = listing,
                                   !.state = IF listing = <<>> THEN "finished"
                                             ELSE "running",
                                   !.before = filesystem]
    /\ UNCHANGED <<storevars, genvars, agentvars, adding, parse>>

\* main() of minimal_doc_assistant.py on a directory (lines 265-271)
FixedMainDirectory(preview) == StartBatch("main", "FixedDocGenerator", preview)

\* DocGenerator._process_directory (lines 55-56)
CleanProcessDirectory(preview) ==
    StartBatch("_process_directory", "DocGenerator", preview)

\* One turn of the loop over py_files: the next file is processed.  An
\* exception that leaves the call ends the loop.
BatchStep ==
    /\ batch.state = "running"
    /\ \E behaviour \in BehavioursFor(GeminiOf(batch.generator)),
          io \in IOModesFor(batch.preview) :
          \E o \in {GeneratorRun(batch.generator, filesystem, clock,
                                 GeminiOf(batch.generator), Head(batch.todo),
                                 batch.preview, behaviour, io)} :
              /\ filesystem' = o.files
              /\ run' = o.run
              /\ batch' = [batch EXCEPT
                             !.todo = Tail(@), !.done = Append(@, o.run),
                             !.state = IF o.run.ret = "raised" THEN "aborted"
                                       ELSE IF Tail(batch.todo) = <<>>
                                       THEN "finished" ELSE "running"]
    /\ UNCHANGED <<storevars, agentvars, adding, parse, clock, use_gemini,
                   gemini_available, runs>>

\* A KeyboardInterrupt while the next file is processed ends the run.
BatchInterrupt(point) ==
    /\ batch.state = "running"
    /\ \E behaviour \in BehavioursFor(GeminiOf(batch.generator)), cut \in {0, 1} :
          \E o \in {InterruptedRun(batch.generator, filesystem, clock,
                                   GeminiOf(batch.generator), Head(batch.todo),
                                   batch.preview, behaviour, point, cut)} :
              /\ o.possible
              /\ filesystem' = o.files
              /\ run' = o.run
    /\ batch' = [batch EXCEPT !.state = "interrupted", !.interrupt = point]
    /\ UNCHANGED <<storevars, agentvars, adding, parse, clock, use_gemini,
                   gemini_available, runs>>

NextBatch ==
    \/ \E preview \in BOOLEAN : FixedMainDirectory(preview)
    \/ \E preview \in BOOLEAN : CleanProcessDirectory(preview)
    \/ BatchStep
    \/ \E point \in InterruptPoints : BatchInterrupt(point)
    \/ Tick

SpecBatch == InitBatch /\ [][NextBatch]_vars

(***************************************************************************)
(* Command-line runs on one file, made one after the other                 *)
(***************************************************************************)

MaxInvocations == 2

\* The previews of the two generators.
NextPreview ==
    \/ \E p \in Paths : FixedGenerate(p, TRUE)
    \/ \E p \in Paths : CleanProcess(p, TRUE)
    \/ Tick

SpecPreview == InitGen /\ [][NextPreview]_vars

\* The files glob(f"{basename}.backup*") finds next to the file.
BackupsOf(fs, file_path) ==
    {n \in DOMAIN fs : Len(n) > 1 /\ n[1] = file_path /\ n[2] = ".backup_"}

\* Lines 246-263 of main: a file that holds "{code}" is overwritten with
\* the backup called latest, whether or not --preview was given; without a
\* backup main returns.
Restore(fs, path, latest) ==
    IF ~Contains(fs[FileName(path)], <<"{code}">>)
    THEN [files |-> fs, restored |-> FALSE, returned |-> FALSE]
    ELSE IF BackupsOf(fs, path) = {}
    THEN [files |-> fs, restored |-> FALSE, returned |-> TRUE]
    ELSE [files |-> WriteFile(fs, FileName(path), fs[latest]),
          restored |-> TRUE, returned |-> FALSE]

\* The backups max(backup_files, key=os.path.getctime) can pick: the
\* change times are not part of the file system here, so any of them.
LatestBackups(fs, path) ==
    IF BackupsOf(fs, path) = {} THEN {FileName(path)} ELSE BackupsOf(fs, path)

\* main() of minimal_doc_assistant.py on the path of a file
MainFixed(path, preview) ==
    /\ runs < MaxInvocations
    /\ runs' = runs + 1
    /\ IF FileName(path) \notin DOMAIN filesystem
       THEN /\ batch' = [NoBatch EXCEPT !.op = "main", !.path = path,
                                        !.preview = preview, !.state = "returned",
                                        !.before = filesystem]
            /\ UNCHANGED <<filesystem, run>>
       ELSE \E latest \in LatestBackups(filesystem, path) :
              \E r \in {Restore(filesystem, path, latest)} :
                IF r.returned
                THEN /\ batch' = [NoBatch EXCEPT !.op = "main", !.path = path,
                                                 !.preview = preview,
                                                 !.state = "returned",
                                                 !.before = filesystem]
                     /\ UNCHANGED <<filesystem, run>>
                ELSE \E behaviour \in BehavioursFor(use_gemini),
                        io \in IOModesFor(preview) :
                       \E o \in {Fixed_generate_documentation(r.files, clock,
                                     use_gemini, path, preview, behaviour, io)} :
                         /\ filesystem' = o.files
                         /\ run' = o.run
                         /\ batch' = [NoBatch EXCEPT
                                        !.op = "main",
                                        !.generator = "FixedDocGenerator",
                                        !.path = path, !.preview = preview,
                                        !.listing = <<path>>, !.done = <<o.run>>,
                                        !.state = "finished",
                                        !.before = filesystem,
                                        !.restored = r.restored]
    /\ UNCHANGED <<storevars, agentvars, adding, parse, clock, use_gemini,
                   gemini_available>>

\* main() of clean_doc_assistant.py on the path of a file: process calls
\* _process_file.
MainClean(path, preview) ==
    /\ runs < MaxInvocations
    /\ runs' = runs + 1
    /\ IF FileName(path) \notin DOMAIN filesystem
       THEN /\ batch' = [NoBatch EXCEPT !.op = "process", !.path = path,
                                        !.preview = preview, !.state = "returned",
                                        !.before = filesystem]
            /\ UNCHANGED <<filesystem, run>>
       ELSE \E behaviour \in BehavioursFor(gemini_available),
               io \in IOModesFor(preview) :
              \E o \in {process_file(filesystem, clock, gemini_available,
                                     path, preview, behaviour, io)} :
                /\ filesystem' = o.files
                /\ run' = o.run
                /\ batch' = [NoBatch EXCEPT
                               !.op = "process", !.generator = "DocGenerator",
                               !.path = path, !.preview = preview,
                               !.listing = <<path>>, !.done = <<o.run>>,
                               !.state = "finished", !.before = filesystem]
    /\ UNCHANGED <<storevars, agentvars, adding, parse, clock, use_gemini,
                   gemini_available>>

\* The file systems the runs on one file start from.
MainFileSystems == {FileSystem(TemplateFile, None), FileSystem(FunctionFile, None)}

InitMain ==
    /\ store = NewStore("all-MiniLM-L6-v2")
    /\ disk = NoDisk
    /\ saved = NotSaved
    /\ last = [NoCall EXCEPT !.op = "init", !.model = store.model]
    /\ filesystem \in MainFileSystems
    /\ clock = 0
    /\ use_gemini \in BOOLEAN
    /\ gemini_available \in BOOLEAN
    /\ run = NoRun
    /\ runs = 0
    /\ AgentIdle
    /\ ToolsIdle

NextMain ==
    \/ \E p \in Paths, preview \in BOOLEAN : MainFixed(p, preview)
    \/ \E p \in Paths, preview \in BOOLEAN : MainClean(p, preview)
    \/ Tick

SpecMain == InitMain /\ [][NextMain]_vars

(***************************************************************************)
(* The parses of CodeParser                                                *)
(***************************************************************************)

MaxDefs == 2

\* The files a codebase is made of.
SourceFiles ==
    {SourceFile("python", f, c) : f \in 0..MaxDefs, c \in 0..MaxDefs}
    \cup {SourceFile(kind, 0, 0) : kind \in SourceKinds \ {"python"}}

ParserCodebases == SeqsUpTo(SourceFiles, MaxFiles)

\* parser.parse_codebase(codebase_path)
ParseCodebase(codebase) ==
    /\ parse' = [op |-> "parse_codebase", codebase |-> codebase,
                 data |-> parse_codebase(codebase)]
    /\ UNCHANGED <<storevars, genvars, agentvars, batch, adding>>

NextParse == \E codebase \in ParserCodebases : ParseCodebase(codebase)

SpecParse == Init /\ [][NextParse]_vars

(***************************************************************************)
(* Properties of the generation orchestrator                               *)
(***************************************************************************)

\* A run of FixedDocGenerator.generate_documentation that read its file.
FixedRan == run.op = "FixedDocGenerator.generate_documentation" /\ run.read

\* The local fallback text for the file of the run.
FallbackOfRun ==
    IF run.op = "DocGenerator._process_file"
    THEN local_docs(run.original, run.file_path)
    ELSE generate_local(run.original, run.file_path)

\* C1: whatever the backend does, a run of the orchestrator on a readable
\* file ends with a documentation text, which is the accepted backend text or
\* the local fallback text; it never ends without an output.
C1_OrchestratorAlwaysProduces ==
    FixedRan =>
        /\ run.produced
        /\ run.documented \in {run.result, FallbackOfRun}

\* C2: when the backend raises, the documentation produced for the file is
\* the output of the local fallback generator for the same input.
C2_BackendFailureGivesFallback ==
    (run.read /\ run.backend = "raise") =>
        /\ run.produced
        /\ run.documented = FallbackOfRun

\* C3: a response that is empty or equal to the input after the code-block
\* extraction is replaced by the local fallback text, and the caller sees no
\* failure.
C3_RejectedResponseGivesFallback ==
    (FixedRan /\ run.calls = 1 /\ run.backend # "raise"
        /\ (run.result = <<>> \/ run.result = run.original)) =>
        /\ run.produced
        /\ run.documented = FallbackOfRun
        /\ run.error # NoChanges

\* C4: when the backend returns the prompt of the run verbatim, the result is
\* the fallback text and holds no part of the prompt's instructions.
C4_EchoedPromptGivesFallback ==
    (FixedRan /\ run.calls = 1 /\ run.response = run.prompt) =>
        /\ run.produced
        /\ run.documented = FallbackOfRun
        /\ \A i \in 1..Len(run.documented) :
              run.documented[i] \notin FixedInstructions

(***************************************************************************)
(* Properties of the context assembly and of the store                     *)
(***************************************************************************)

\* The first n elements of a sequence (all of them when it is shorter).
Take(seq, n) == SubSeq(seq, 1, IF n < Len(seq) THEN n ELSE Len(seq))

\* A call of generate_documentation that searched the store for its context.
ContextFromStore ==
    /\ last.op = "generate_documentation"
    /\ last.given.none
    /\ last.error = ""

\* C5: no entry of the context built for a target comes from the target's
\* own file.
C5_NoOwnFileInContext ==
    ContextFromStore =>
        \A i \in 1..Len(last.entries) :
            last.entries[i].file_path # last.target.file_path

\* The context the specification describes: of the 2 * top_k nearest
\* candidates, drop those of the target's file and those without a docstring,
\* keep the first top_k.
DescribedContext(s, target, top_k) ==
    LET q == encode(s.model, Query(target.type, target.name))
        ranked == Only({NearestFirst(dist) : dist \in {Distances(s.index, q)}})
        candidates == [i \in 1..Len(Take(ranked, 2 * top_k)) |->
                          s.metadata[ranked[i].label + 1].metadata]
    IN  Take(SelectSeq(candidates,
                 LAMBDA e : e.file_path # target.file_path /\ Truthy(e.docstring)),
             top_k)

\* C6: the context is the first top_k of the 2 * top_k nearest candidates
\* left after dropping the target's own file and the undocumented ones, and
\* so has at most top_k entries.
C6_ContextIsFilteredTopK ==
    ContextFromStore =>
        /\ last.entries = DescribedContext(store, last.target, ContextK)
        /\ Len(last.entries) <= ContextK

\* C7: building the context never raises, whatever the state of the store,
\* and the generation call is then made.
C7_ContextNeverErrors ==
    last.op = "generate_documentation" => (last.error = "" /\ last.calls = 1)

\* C8: search_similar on a store that was never indexed or loaded raises the
\* index-not-initialized error, returns nothing and leaves the store as it was.
C8_SearchOnEmptyStoreFails ==
    [][(last'.op = "search_similar" /\ store.index.none) =>
          /\ last'.error = "ValueError: Index not initialized"
          /\ last'.results = <<>>
          /\ store' = store
          /\ disk' = disk]_vars

C8_Witness ==
    /\ last.op = "search_similar"
    /\ store.index.none
    /\ store.metadata = <<>>
    /\ last.error = "ValueError: Index not initialized"

\* A call of index_codebase whose parsed data holds no function and no class.
IndexedNothing(call) ==
    call.op = "index_codebase" /\ prepare_documents(call.parsed) = <<>>

\* C9 as claimed: index_codebase with no elements succeeds and changes
\* nothing.
C9_EmptyAddSucceeds ==
    [][IndexedNothing(last') => (store' = store /\ last'.error = "")]_vars

\* C9 as the code has it: index_codebase with no elements changes nothing
\* (index, metadata and dimension stay) and raises "No documents to index".
C9_EmptyAddRaisesAndChangesNothing ==
    [][IndexedNothing(last') =>
          /\ store' = store
          /\ disk' = disk
          /\ last'.error = "ValueError: No documents to index"]_vars

C9_Witness ==
    /\ IndexedNothing(last)
    /\ ~store.index.none
    /\ Len(store.metadata) = store.index.ntotal
    /\ last.error = "ValueError: No documents to index"

\* The store now answers every query as the store that was saved did.
SameAnswers(s, t) ==
    \A q \in Queries, k \in Ks :
        /\ search_similar(s, q, k).error = search_similar(t, q, k).error
        /\ search_similar(s, q, k).results = search_similar(t, q, k).results

\* A store just loaded from the files a completed save wrote, with the
\* embedding model of the store that saved them.
LoadedFromSave ==
    /\ last.op = "load"
    /\ last.error = ""
    /\ saved.valid
    /\ store.model = saved.store.model

DiskOf(s) ==
    [has_faiss |-> TRUE, faiss |-> write_index(s.index),
     has_pkl |-> TRUE, pkl |-> pickle_dump(s.metadata)]

\* C11: a save over a valid persisted index, interrupted or not, leaves on
\* disk either the complete previous index or the complete new one.
C11_PersistIsAtomic ==
    [][(last'.op = "save" /\ saved.valid /\ disk = DiskOf(saved.store)) =>
          disk' \in {disk, DiskOf(store)}]_vars

Min(a, b) == IF a < b THEN a ELSE b

\* The entries of the store nearest first, equal distances in the order of
\* insertion, as search results.
RankedEntries(s, query) ==
    Only({ [i \in 1..Len(ranked) |->
              [metadata |-> s.metadata[ranked[i].label + 1].metadata,
               distance |-> ranked[i].distance,
               text |-> s.metadata[ranked[i].label + 1].text]] :
           ranked \in {NearestFirst(Distances(s.index, encode(s.model, query)))} })

\* A search on a store that holds N >= 1 entries, asked with the embedder the
\* entries were made with.
SearchedReady ==
    /\ last.op = "search_similar"
    /\ ~store.index.none
    /\ store.index.ntotal >= 1
    /\ Len(store.metadata) = store.index.ntotal
    /\ ModelDim(store.model) = store.index.d

\* C12: a query on a Ready store of N entries returns exactly min(k, N)
\* distinct entries, the nearest ones, nearest first and equal distances in
\* the order of insertion.
C12_QueryReturnsMinKN ==
    SearchedReady =>
        /\ last.error = ""
        /\ Len(last.results) = Min(last.k, store.index.ntotal)
        /\ last.results = Take(RankedEntries(store, last.query), last.k)

\* C13: the store holds as many element records as vectors, and the i-th
\* vector is the embedding of the i-th record's text.
C13_RecordsMatchVectors ==
    /\ store.index.none => store.metadata = <<>>
    /\ ~store.index.none =>
          /\ Len(store.metadata) = store.index.ntotal
          /\ \E m \in ModelNames :
                \A i \in 1..Len(store.metadata) :
                    Reconstruct(store.index, i - 1) = encode(m, store.metadata[i].text)

\* An add of documents, on a store that has an index, by an embedder of
\* another dimension than the index.
MismatchedAdd ==
    /\ last'.op = "index_codebase"
    /\ ~store.index.none
    /\ ModelDim(store.model) # store.index.d
    /\ prepare_documents(last'.parsed) # <<>>

\* C14: the declared dimension of the store is the length of its vectors, and
\* an add by an embedder of another dimension fails and changes nothing.
C14_DimensionMismatchFailsFast ==
    /\ [](~store.index.none => store.dimension = store.index.d)
    /\ [][MismatchedAdd => (last'.error # "" /\ store' = store)]_vars

\* A successful add on a store that has an index.
AddOnReady ==
    /\ last'.op = "index_codebase"
    /\ ~store.index.none
    /\ last'.error = ""

C17_FailedLoadStartsEmpty ==
    (last.op = "load" /\ (~disk.has_faiss \/ ~disk.has_pkl)) =>
        /\ store.index.none
        /\ store.metadata = <<>>
        /\ last.error = ""

\* C20: a call of generate_documentation makes exactly one call to the
\* generation backend.
C20_ExactlyOneBackendCall ==
    last.op = "generate_documentation" => last.calls = 1

(***************************************************************************)
(* Properties of the index build                                           *)
(***************************************************************************)

\* The files of a build that fail: those that cannot be read or parsed and
\* the one whose elements cannot be embedded.
FailedFiles(b) ==
    {i \in 1..Len(b.codebase) :
        b.codebase[i] \in {"unreadable", "parse_error"} \/ i = b.embed_fails_on}

RECURSIVE ElementsOfOthers(_, _)
\* The elements of the files that do not fail, from file i on.
ElementsOfOthers(b, i) ==
    IF i > Len(b.codebase) THEN <<>>
    ELSE (IF i \in FailedFiles(b) THEN <<>>
          ELSE parse_file(i, b.codebase[i]).elements)
         \o ElementsOfOthers(b, i + 1)

\* C16: a build in which one file fails to parse or to embed goes on without
\* that file: it does not abort, and the elements of the other files are
\* indexed and persisted.
C16_BuildSkipsFailedFile ==
    (build.op = "index_codebase" /\ Cardinality(FailedFiles(build)) = 1) =>
        /\ build.ret = "True"
        /\ code_index.exists
        /\ code_index.elements = ElementsOfOthers(build, 1)

(***************************************************************************)
(* Properties of the local generator and of the response cleaning          *)
(***************************************************************************)

RECURSIVE CloseOf(_, _, _)
\* The position of the parenthesis that closes the one opened at depth 0 at
\* or after position i (0 when there is none).
CloseOf(t, i, depth) ==
    IF i > Len(t) THEN 0
    ELSE IF t[i] = "(" THEN CloseOf(t, i + 1, depth + 1)
    ELSE IF t[i] = ")"
    THEN (IF depth = 1 THEN i ELSE CloseOf(t, i + 1, depth - 1))
    ELSE CloseOf(t, i + 1, depth)

RECURSIVE TopLevelPieces(_, _, _)
\* The pieces of a parameter list between the commas outside parentheses.
TopLevelPieces(t, depth, piece) ==
    IF t = <<>> THEN <<piece>>
    ELSE IF Head(t) = "," /\ depth = 0
    THEN <<piece>> \o TopLevelPieces(Tail(t), 0, <<>>)
    ELSE TopLevelPieces(Tail(t),
                        CASE Head(t) = "(" -> depth + 1
                          [] Head(t) = ")" -> depth - 1
                          [] OTHER -> depth,
                        Append(piece, Head(t)))

\* The names of the parameters of the pieces, the receiver excepted.
NamesOfPieces(pieces) ==
    {Strip(pieces[j])[1] : j \in {j \in 1..Len(pieces) : Strip(pieces[j]) # <<>>}}
    \ {"self"}

\* Whether the line after the header that ends at position c is a docstring.
HeaderHasDocstring(content, c) ==
    Only({ Len(lines) >= 2 /\ StartsWith(Strip(lines[2]), {"Q3", "A3"}) :
           lines \in {SplitLines(SubSeq(content, c + 1, Len(content)))} })

\* The function definitions of a text that have no docstring: the name and
\* the parameter names of each.
UndocumentedDefs(content) ==
    { [name |-> content[WordAt(content, i)],
       params |-> NamesOfPieces(TopLevelPieces(
                      SubSeq(content, ParenAt(content, i) + 1,
                             CloseOf(content, ParenAt(content, i), 0) - 1),
                      0, <<>>))] :
      i \in {i \in 1..Len(content) :
                /\ DefMatchesAt(content, i)
                /\ CloseOf(content, ParenAt(content, i), 0) # 0
                /\ ~HeaderHasDocstring(content,
                                       CloseOf(content, ParenAt(content, i), 0))} }

\* A run of FixedDocGenerator without a backend.
LocalRun ==
    /\ run.op = "FixedDocGenerator.generate_documentation"
    /\ run.read
    /\ run.calls = 0
    /\ run.produced

\* C18: without a backend, the output for a file names every function that
\* has no docstring in a docstring of its own, and every parameter of it but
\* self with the placeholder "Description".
C18_FallbackNamesParameters ==
    LocalRun =>
        \A d \in UndocumentedDefs(run.original) :
            /\ Contains(run.documented, <<"Q3", d.name, ".">>)
            /\ \A p \in d.params : Contains(run.documented, <<p, ": Description">>)

\* The word after the fence that names the language of the block.
LanguageTags == {"python", "py"}

\* The text between the first opening fence of a response (with its language
\* tag) and the next fence; the trimmed response when it has no fence.
DescribedExtraction(response) ==
    IF ~Contains(response, <<"FENCE">>) THEN Strip(response)
    ELSE LET o == Find(response, <<"FENCE">>)
             start == IF o + 1 <= Len(response) /\ response[o + 1] \in LanguageTags
                      THEN o + 2 ELSE o + 1
             rest == SubSeq(response, start, Len(response))
             c == Find(rest, <<"FENCE">>)
         IN  IF c = 0 THEN rest ELSE SubSeq(rest, 1, c - 1)

\* C19: the result taken from a response is the text of its first fenced
\* block, without the prose around it, or the trimmed response when there is
\* no fence (compared up to white space at the ends).
C19_ExtractsFirstFencedBlock ==
    (run.read /\ run.calls = 1 /\ run.backend # "raise") =>
        Strip(run.result) = Strip(DescribedExtraction(run.response))

(***************************************************************************)
(* Properties of querying, batches, previews and the local generator       *)
(***************************************************************************)

\* C23: a query (search_similar, and the context building inside
\* generate_documentation) leaves the store's index, records and dimension,
\* and the files on disk, as they were, whatever the input and also when
\* the call fails.
C23_QueryIsReadOnly ==
    [][last'.op \in {"search_similar", "generate_documentation"} =>
          (store' = store /\ disk' = disk)]_vars

C23_Witness ==
    /\ last.op \in {"search_similar", "generate_documentation"}
    /\ ~store.index.none
    /\ store.metadata # <<>>
    /\ \/ last.results # <<>>
       \/ last.entries # <<>>

\* A run whose documented text came from a local generator (_generate_local
\* or _local_docs).
LocalOutput == run.read /\ run.produced /\ run.source = "local"

RECURSIVE IsSubsequence(_, _)
\* Whether the sequence a is b with some of its members deleted.
IsSubsequence(a, b) ==
    IF a = <<>> THEN TRUE
    ELSE IF b = <<>> THEN FALSE
    ELSE IF Head(a) = Head(b) THEN IsSubsequence(Tail(a), Tail(b))
    ELSE IsSubsequence(a, Tail(b))

\* How often a line occurs among the lines.
Count(lines, l) == Cardinality({i \in 1..Len(lines) : lines[i] = l})

\* The lines the output has more often than the input.
ExtraLines(in, out) ==
    {out[i] : i \in {i \in 1..Len(out) : Count(out, out[i]) > Count(in, out[i])}}

\* A line of a docstring the generators write: an empty line, a line that
\* opens or closes a docstring, or a line of its text.
IsDocstringLine(l) ==
    \/ l = <<>>
    \/ StartsWith(Strip(l), {"Q3"})
    \/ l[Len(l)] \in {"Q3", ": Description", "Description of return value",
                      "Class description.", "Module description.", "Args:",
                      "Returns:"}

\* C27: the output of a local generator is its input with lines inserted:
\* the input's lines are all there, in their order, and every line the
\* output has beyond them is a line of a docstring.
C27_OnlyInsertsLines ==
    LocalOutput =>
        Only({ Only({ /\ IsSubsequence(in, out)
                      /\ \A l \in ExtraLines(in, out) : IsDocstringLine(l) :
                      out \in {SplitLines(run.documented)} }) :
               in \in {SplitLines(run.original)} })

C27_Witness ==
    /\ LocalOutput
    /\ run.op = "FixedDocGenerator.generate_documentation"
    /\ Len(SplitLines(run.original)) >= 5
    /\ Len(SplitLines(run.documented)) > Len(SplitLines(run.original)) + 5

\* The number of leading indentation steps of a line.
Indent(line) == SkipSpaces(line, 1) - 1

\* The first line of a docstring made by _create_function_docstring or
\* _create_class_docstring: the quotes, the name and a full stop.
IsInsertedDoc(line) ==
    Only({ Len(t) >= 3 /\ t[1] = "Q3" /\ t[2] \in Words /\ t[3] = "." :
           t \in {Strip(line)} })

\* The line before line k that begins the nearest def or class header (0
\* when there is none).
HeaderBefore(out, k) ==
    LET starts == {j \in 1..(k - 1) : StartsWith(Strip(out[j]), {"def", "class"})}
    IN  IF starts = {} THEN 0 ELSE CHOOSE j \in starts : \A i \in starts : i <= j

\* C28: every docstring the local generator inserts for a function or class
\* comes right after the last line of the header (the line that ends with
\* the colon) and is indented one level deeper than the header's first line.
C28_DocstringAfterHeaderOneDeeper ==
    LocalRun =>
        Only({ \A k \in 2..Len(out) :
                  IsInsertedDoc(out[k]) =>
                      /\ HeaderBefore(out, k) # 0
                      /\ out[k - 1] # <<>>
                      /\ out[k - 1][Len(out[k - 1])] = ":"
                      /\ \A j \in HeaderBefore(out, k)..(k - 2) :
                            out[j] = <<>> \/ out[j][Len(out[j])] # ":"
                      /\ Indent(out[k]) = Indent(out[HeaderBefore(out, k)]) + 1 :
               out \in {SplitLines(run.documented)} })

\* C29: a local generator applied to its own output adds nothing more: the
\* second application returns its input.
C29_LocalIsIdempotent ==
    LocalOutput =>
        IF run.op = "FixedDocGenerator.generate_documentation"
        THEN generate_local(run.documented, run.file_path) = run.documented
        ELSE local_docs(run.documented, run.file_path) = run.documented

RECURSIVE Sum(_, _)
\* The sum of f[1], ..., f[n].
Sum(f, n) == IF n = 0 THEN 0 ELSE f[n] + Sum(f, n - 1)

\* The numbers of function and class records in the file records of a
\* parse result.
ExtractedFunctions(data) ==
    Sum([i \in 1..Len(data.files) |-> Len(data.files[i].functions)], Len(data.files))
ExtractedClasses(data) ==
    Sum([i \in 1..Len(data.files) |-> Len(data.files[i].classes)], Len(data.files))

\* C30: the summary of parse_codebase counts what was extracted: total_files
\* the file records, total_functions and total_classes the function and
\* class records of all files, which are also the lengths of the top-level
\* lists 'functions' and 'classes'.
C30_SummaryMatchesExtraction ==
    parse.op = "parse_codebase" =>
        /\ parse.data.summary.total_files = Len(parse.data.files)
        /\ parse.data.summary.total_functions = ExtractedFunctions(parse.data)
        /\ parse.data.summary.total_classes = ExtractedClasses(parse.data)
        /\ Len(parse.data.functions) = ExtractedFunctions(parse.data)
        /\ Len(parse.data.classes) = ExtractedClasses(parse.data)

\* What a search_similar call gives on a store: the exception and the
\* results.
Outcome(s, query, k) ==
    Only({ [error |-> r.error, results |-> r.results] :
           r \in {search_similar(s, query, k)} })

\* C22: a search_similar that runs while an index_codebase call of another
\* thread is under way gives what it gives on the store as it was before
\* that call or on the store as it is after it; it never sees the new
\* index with the old element list.
C22_AddIsAtomicForQueries ==
    [][(last'.op = "search_similar" /\ adding' = adding /\ adding.pc # "idle") =>
          [error |-> last'.error, results |-> last'.results]
              \in {Outcome(adding.before, last'.query, last'.k),
                   Outcome(IndexDocuments(adding.before, adding.documents),
                           last'.query, last'.k)}]_vars

\* The files the runs of a batch were made on, in their order.
Attempted(done) == [i \in 1..Len(done) |-> done[i].file_path]

\* C21: a run over a directory attempts every listed file once, in the
\* order of the list, whatever fails on a file: no failure ends the loop,
\* every turn of the loop takes one file off the list, and the run is
\* finished exactly when the list is used up.
C21_BatchAttemptsEveryFileOnce ==
    /\ [](/\ batch.state # "aborted"
          /\ batch.state \in {"running", "finished"} =>
                Attempted(batch.done) \o batch.todo = batch.listing
          /\ batch.state = "finished" => batch.todo = <<>>
          /\ batch.state = "running" => batch.todo # <<>>)
    /\ [][(batch.state = "running" /\ batch' # batch) =>
             \/ batch'.state = "interrupted"
             \/ Len(batch'.todo) = Len(batch.todo) - 1]_vars

C21_Witness ==
    /\ batch.state = "finished"
    /\ Len(batch.done) = 2
    /\ batch.done[1].error # ""
    /\ batch.done[1].io = "backup_fail"
    /\ batch.done[2].written

\* C24: after an interrupt no file that was not yet started has changed,
\* and every source file holds its text from before the run or the whole
\* documented text a run of the batch produced for it.
C24_CancelledBatchLeavesWholeFiles ==
    batch.state = "interrupted" =>
        /\ Attempted(batch.done) \o batch.todo = batch.listing
        /\ \A i \in 2..Len(batch.todo) :
              filesystem[FileName(batch.todo[i])] = batch.before[FileName(batch.todo[i])]
        /\ \A i \in 1..Len(batch.listing) :
              filesystem[FileName(batch.listing[i])]
                  \in {batch.before[FileName(batch.listing[i])]}
                      \cup {batch.done[j].documented :
                               j \in {j \in 1..Len(batch.done) :
                                         /\ batch.done[j].file_path = batch.listing[i]
                                         /\ batch.done[j].produced}}
                      \cup (IF run.file_path = batch.listing[i] /\ run.produced
                            THEN {run.documented} ELSE {})

\* C25: a run that is no preview overwrites the source file only when a
\* backup with the text the run read is on disk; a run whose backup could
\* not be created leaves the source file with that text; and no backup that
\* was on disk before the run holds another text after it.
C25_BackupBeforeOverwrite ==
    [][(runs' # runs /\ batch'.done # <<>> /\ ~batch'.preview) =>
          /\ batch'.done[1].written =>
                \E n \in BackupsOf(filesystem', batch'.path) :
                    filesystem'[n] = batch'.done[1].original
          /\ batch'.done[1].error = "OSError: backup" =>
                filesystem'[FileName(batch'.path)] = batch'.done[1].original
          /\ \A n \in DOMAIN filesystem :
                Len(n) > 1 => filesystem'[n] = filesystem[n]]_vars

\* C26: a command-line run with --preview leaves every file as it was: no
\* file is created, none is changed, none is removed.
C26_PreviewWritesNothing ==
    [][(runs' # runs /\ batch'.preview) => filesystem' = filesystem]_vars

====
